---- MODULE Spec2Model ----
(***************************************************************************)
(* A model of the data service of stock_forecast:                          *)
(*   services/stock_data.py  StockDataService (kline retrieval, directory) *)
(*   services/indicators.py  TechnicalIndicators                           *)
(*   services/ml_predict.py  MLPredictService                              *)
(* Numbers are exact rationals with a NaN flag (IEEE comparisons with NaN  *)
(* are false).  Upstream providers and third-party numeric libraries are   *)
(* the environment: their outcomes are drawn from bounded sets.            *)
(***************************************************************************)
EXTENDS Integers, Sequences, FiniteSets, TLC

VARIABLES
    \* ---- get_kline (stock_data.py) ----
    kpc,        \* position of the get_kline call: idle | sina | akshare | done
    period,     \* the period argument of the call in progress
    calls,      \* upstream contacts of this call, in order
    slept,      \* time.sleep arguments of this call, in tenths of a second
    retry,      \* loop variable of _get_kline_akshare
    sinaOut,    \* what the snapshot upstream answered (kind, rows)
    akOut,      \* what the historical upstream answered, per attempt
    kresult,    \* the DataFrame get_kline returned (a sequence of rows)
    kraised,    \* an exception left get_kline
    \* ---- stock directory (stock_data.py) ----
    cache,      \* lru_cache of get_stock_list: unset, or the memoized list
    upstream,   \* what the directory providers would answer now
    dirCalls,   \* number of get_stock_list bodies that contacted the providers
    served,     \* the directory contents each call so far has observed
    lastReply,  \* what the last search_stocks / get_stock_info call returned, whether
                \* it came from the memo, and whether the providers agreed then
    \* ---- indicators / ml_predict ----
    apc,        \* fetched | calculated | predicted
    df,         \* the bar series under analysis
    env,        \* outcomes of the third-party numeric libraries for this series
    indicators, \* result of calculate_all
    prediction, \* result of predict_all
    ran,        \* estimators predict_all has run
    \* ---- get_signals ----
    spc,        \* input | classified
    sigIn,      \* the indicator dict handed to get_signals
    signals     \* the list get_signals returned

klineVars == <<kpc, period, calls, slept, retry, sinaOut, akOut, kresult, kraised>>
dirVars == <<cache, upstream, dirCalls, served, lastReply>>
anaVars == <<apc, df, env, indicators, prediction, ran>>
sigVars == <<spc, sigIn, signals>>
vars == <<klineVars, dirVars, anaVars, sigVars>>

(***************************************************************************)
(* Bounds of the model.                                                    *)
(***************************************************************************)
\* upstream responses carry up to TailWindow + MaxOver rows, and BigRows
MaxOver == 2
BigRows == 300
\* the directory providers publish versions 1..MaxVersion of their listings
MaxVersion == 2
\* get_stock_list bodies run in one process, at most
MaxContacts == 3
\* the level of a flat series, and the base of a zigzag
FlatLevel == 10
\* the outputs of the indicator package take values indexed 0..MaxTaVal
MaxTaVal == 2
\* the classifier answers P(up) = k / ProbDen, k in 0..ProbDen
ProbDen == 10
\* series of up to MinRows + WarmUp + MaxExtra bars, steps 1..MaxStep
MaxExtra == 0
MaxStep == 1
\* the long NaN run, and how far before the last bar a NaN run may end
LongRun == 20
MaskOff == 2
\* price levels 0..MaxLevel of the indicator dicts handed to get_signals
MaxLevel == 2

(***************************************************************************)
(* Program constants.                                                      *)
(***************************************************************************)
TailWindow == 250
MaxAttempts == 3
BackoffTenths == 3
SearchLimit == 100
MinBars == 60
MinRows == 50
RollWindow == 20
WarmUp == RollWindow - 1

(***************************************************************************)
(* Data frames of the kline retriever: a sequence of rows, oldest first.   *)
(* A row is identified by its date ordinal.                                *)
(***************************************************************************)
EmptyFrame == << >>

Rows(n) == [i \in 1..n |-> i]

\* DataFrame.head(k): the first min(len, k) rows
head(frame, k) == IF Len(frame) <= k THEN frame ELSE SubSeq(frame, 1, k)

\* DataFrame.tail(k): the last min(len, k) rows in their order
tail(frame, k) ==
    IF Len(frame) <= k THEN frame
    ELSE [i \in 1..k |-> frame[Len(frame) - k + i]]

\* DataFrame.empty
empty(frame) == Len(frame) = 0

RowCounts == {1, 2} \cup ((TailWindow - 1)..(TailWindow + MaxOver)) \cup {BigRows}

Periods == {"daily", "weekly", "monthly", "hourly"}

\* scale_map.get(period, "240")
scale_of(p) ==
    CASE p = "daily" -> "240"
      [] p = "weekly" -> "1680"
      [] p = "monthly" -> "7200"
      [] OTHER -> "240"

\* the period handed to ak.stock_zh_a_hist
ak_period(p) ==
    IF p = "weekly" THEN "weekly" ELSE IF p = "monthly" THEN "monthly" ELSE "daily"

(***************************************************************************)
(* What the snapshot upstream can answer to one request.                   *)
(*   raise     session.get raises (connection, timeout)                    *)
(*   status    an HTTP status other than 200                               *)
(*   noparen   a body without the "(...)" wrapper                          *)
(*   badjson   a wrapper whose content json.loads rejects                  *)
(*   nodata    an empty or null JSON value                                 *)
(*   badrows   a non-empty JSON value without the bar fields               *)
(*   rows      n well-formed bars                                          *)
(***************************************************************************)

SinaOutcomes ==
    [kind : {"raise", "status", "noparen", "badjson", "nodata", "badrows"},
     n : {0}] \cup [kind : {"rows"}, n : RowCounts]

\* how a block of code ends: it raises, it returns a frame, or control
\* falls out of it
Raised == [ctl |-> "raise", frame |-> EmptyFrame]
Fell == [ctl |-> "fall", frame |-> EmptyFrame]
Returned(frame) == [ctl |-> "return", frame |-> frame]

\* the try block of _get_kline_sina. The parsed rows are returned as they
\* came: the request asks for 250 rows, the response is not cut.
sina_try_body(out) ==
    CASE out.kind = "raise" -> Raised
      [] out.kind = "status" -> Fell
      [] out.kind = "noparen" -> Fell
      [] out.kind = "badjson" -> Raised
      [] out.kind = "nodata" -> Fell
      [] out.kind = "badrows" -> Raised
      [] out.kind = "rows" -> Returned(Rows(out.n))

\* a _get_kline_sina that lets the failures of its try block out
sina_no_except(out) ==
    LET r == sina_try_body(out) IN
    IF r.ctl = "fall" THEN Returned(EmptyFrame) ELSE r

\* _get_kline_sina: except Exception prints, and the function ends in
\* `return pd.DataFrame()` whenever the try block did not return
_get_kline_sina(out) ==
    LET r == sina_try_body(out) IN
    IF r.ctl = "return" THEN r ELSE Returned(EmptyFrame)

(***************************************************************************)
(* What the historical upstream can answer to one attempt.                 *)
(*   raise   ak.stock_zh_a_hist raises                                     *)
(*   none    it returns None                                               *)
(*   empty   it returns an empty frame                                     *)
(*   nodate  a non-empty frame without the date column (df['date'] raises) *)
(*   rows    n well-formed bars                                            *)
(***************************************************************************)

AkOutcomes ==
    [kind : {"raise", "none", "empty", "nodate"}, n : {0}] \cup [kind : {"rows"}, n : RowCounts]

\* the try block of one pass of the loop of _get_kline_akshare
akshare_try_body(out) ==
    CASE out.kind = "raise" -> Raised
      [] out.kind = "none" -> Fell
      [] out.kind = "empty" -> Fell
      [] out.kind = "nodate" -> Raised
      [] out.kind = "rows" -> Returned(tail(Rows(out.n), TailWindow))

\* one pass of the loop: except Exception prints and the loop goes on
akshare_attempt(out) ==
    LET r == akshare_try_body(out) IN
    IF r.ctl = "raise" THEN Fell ELSE r

\* a loop that gives up after its first pass
single_attempt(k) == FALSE

\* range(3): whether the loop has a pass after pass `k`
has_next_attempt(k) == k + 1 < MaxAttempts

\* time.sleep(0.3 * retry), in tenths of a second
backoff(k) == BackoffTenths * k

NoOutcome == [kind |-> "pending", n |-> 0]

(***************************************************************************)
(* get_kline, one action per upstream exchange.                            *)
(***************************************************************************)
\* get_kline is entered and _get_kline_sina sends its request
GetKline(p) ==
    /\ kpc \in {"idle", "done"}
    /\ kpc' = "sina"
    /\ period' = p
    /\ calls' = << [src |-> "sina", arg |-> scale_of(p)] >>
    /\ slept' = << >>
    /\ retry' = 0
    /\ sinaOut' = NoOutcome
    /\ akOut' = << >>
    /\ kresult' = EmptyFrame
    /\ kraised' = FALSE
    /\ UNCHANGED <<dirVars, anaVars, sigVars>>

\* pass k of the loop of _get_kline_akshare begins: sleep, then request
ak_begin(k) ==
    /\ retry' = k
    /\ slept' = Append(slept, backoff(k))
    /\ calls' = Append(calls, [src |-> "akshare", arg |-> ak_period(period)])

\* `df is not None and not df.empty` of get_kline
usable(r) == r.ctl = "return" /\ ~empty(r.frame)

\* the snapshot upstream answers; get_kline returns its frame when that is
\* non-empty and enters _get_kline_akshare otherwise
SinaAnswer(out) ==
    /\ kpc = "sina"
    /\ sinaOut' = out
    /\ LET r == _get_kline_sina(out) IN
        IF r.ctl = "raise"
        THEN /\ kraised' = TRUE
             /\ kresult' = EmptyFrame
             /\ kpc' = "done"
             /\ UNCHANGED <<calls, slept, retry>>
        ELSE IF usable(r)
        THEN /\ kresult' = r.frame
             /\ kpc' = "done"
             /\ UNCHANGED <<calls, slept, retry, kraised>>
        ELSE /\ kpc' = "akshare"
             /\ kresult' = EmptyFrame
             /\ ak_begin(0)
             /\ UNCHANGED kraised
    /\ UNCHANGED <<period, akOut>>
    /\ UNCHANGED <<dirVars, anaVars, sigVars>>

\* the historical upstream answers pass `retry`; get_kline returns the
\* frame of the first pass that has one, and an empty frame after the last
AkshareAnswer(out) ==
    /\ kpc = "akshare"
    /\ akOut' = Append(akOut, out)
    /\ LET r == akshare_attempt(out) IN
        IF r.ctl = "raise"
        THEN /\ kraised' = TRUE
             /\ kresult' = EmptyFrame
             /\ kpc' = "done"
             /\ UNCHANGED <<calls, slept, retry>>
        ELSE IF r.ctl = "return"
        THEN /\ kresult' = r.frame
             /\ kpc' = "done"
             /\ UNCHANGED <<calls, slept, retry, kraised>>
        ELSE IF has_next_attempt(retry)
        THEN /\ ak_begin(retry + 1)
             /\ kpc' = "akshare"
             /\ kresult' = EmptyFrame
             /\ UNCHANGED kraised
        ELSE /\ kresult' = EmptyFrame
             /\ kpc' = "done"
             /\ UNCHANGED <<calls, slept, retry, kraised>>
    /\ UNCHANGED <<period, sinaOut>>
    /\ UNCHANGED <<dirVars, anaVars, sigVars>>

(***************************************************************************)
(* The stock directory. Text is a sequence of one-character strings.       *)
(***************************************************************************)
\* str.upper, per character
upper_char(c) ==
    CASE c = "a" -> "A"
      [] c = "b" -> "B"
      [] OTHER -> c

upper(text) == [i \in 1..Len(text) |-> upper_char(text[i])]

\* `needle in text` of two strings
contains(text, needle) ==
    \E i \in 0..(Len(text) - Len(needle)) :
        \A j \in 1..Len(needle) : text[i + j] = needle[j]

\* str.startswith
startswith(text, prefix) ==
    /\ Len(prefix) <= Len(text)
    /\ \A j \in 1..Len(prefix) : text[j] = prefix[j]

RECURSIVE select_rows(_, _)
\* the rows of a listing whose code starts with `prefix`, in their order
select_rows(listing, prefix) ==
    IF listing = << >> THEN << >>
    ELSE LET rest == select_rows(Tail(listing), prefix) IN
         IF startswith(Head(listing).code, prefix)
         THEN << Head(listing) >> \o rest
         ELSE rest

\* the digit i as a character
Digit(i) == CASE i = 0 -> "0" [] i = 1 -> "1" [] i = 2 -> "2" [] i = 3 -> "3"
              [] i = 4 -> "4" [] i = 5 -> "5" [] i = 6 -> "6" [] i = 7 -> "7"
              [] i = 8 -> "8" [] OTHER -> "9"

\* row i of the Shanghai listing: A shares start with 6, B shares with 9
ShRow(i) ==
    [code |-> << (IF i % 2 = 1 THEN "6" ELSE "9"), "0", Digit(i) >>,
     name |-> << "a", Digit(i) >>]

\* row i of the Shenzhen listing: main board starts with 0, ChiNext with 3
SzRow(i) ==
    [code |-> << (IF i % 2 = 1 THEN "0" ELSE "3"), "0", Digit(i) >>,
     name |-> << "B", Digit(i) >>]

\* the provider's listing in its version v: rows 1..v+1
ShListing(v) == [i \in 1..(v + 1) |-> ShRow(i)]
SzListing(v) == [i \in 1..(v + 1) |-> SzRow(i)]

Down == 0
\* what a directory provider answers: Down (it raises), or a version
ProviderStates == {Down} \cup (1..MaxVersion)

with_market(rows, market) ==
    [i \in 1..Len(rows) |->
        [code |-> rows[i].code, name |-> rows[i].name, market |-> market]]

\* a get_stock_list that keeps the listing of the provider that answered
stock_list_partial(up) ==
    (IF up.sh = Down THEN << >>
     ELSE with_market(select_rows(ShListing(up.sh), << "6" >>), "SH"))
    \o (IF up.sz = Down THEN << >>
        ELSE with_market(select_rows(SzListing(up.sz), << "0" >>), "SZ"))

\* the body of get_stock_list with its try/except
stock_list_body(up) ==
    IF up.sh = Down \/ up.sz = Down
    THEN << >>
    ELSE with_market(select_rows(ShListing(up.sh), << "6" >>), "SH")
         \o with_market(select_rows(SzListing(up.sz), << "0" >>), "SZ")

Unset == [set |-> FALSE, value |-> << >>]
Memo(v) == [set |-> TRUE, value |-> v]

\* an lru_cache that keeps no empty result
cache_hit_nonempty(c) == c.set /\ c.value # << >>

\* lru_cache(maxsize=1) on a function of no arguments: the second and later
\* calls find the entry of the first
cache_hit(c) == c.set

\* get_stock_list(): the list it returns, the cache and the contacts after it
get_stock_list ==
    IF cache_hit(cache)
    THEN [value |-> cache.value, cache |-> cache, contacts |-> dirCalls]
    ELSE LET v == stock_list_body(upstream) IN
         [value |-> v, cache |-> Memo(v), contacts |-> dirCalls + 1]

RECURSIVE matching(_, _)
\* the stocks whose code or upper-cased name contains the keyword
matching(stocks, keyword) ==
    IF stocks = << >> THEN << >>
    ELSE LET rest == matching(Tail(stocks), keyword) IN
         IF contains(Head(stocks).code, keyword)
            \/ contains(upper(Head(stocks).name), keyword)
         THEN << Head(stocks) >> \o rest
         ELSE rest

\* list[:k]
first_n(list, k) == IF Len(list) <= k THEN list ELSE SubSeq(list, 1, k)

search_result(all_stocks, keyword) ==
    IF keyword = << >> THEN all_stocks
    ELSE first_n(matching(all_stocks, upper(keyword)), SearchLimit)

NoStock == [code |-> << >>, name |-> << >>, market |-> "None"]

RECURSIVE info_result(_, _)
\* the first stock with that code, or None
info_result(all_stocks, code) ==
    IF all_stocks = << >> THEN NoStock
    ELSE IF Head(all_stocks).code = code THEN Head(all_stocks)
    ELSE info_result(Tail(all_stocks), code)

\* the route /stocks/{code}/info: the stock, or a placeholder with the name
\* "unknown" and no market when get_stock_info returned None
info_route_answer(info, code) ==
    IF info # NoStock THEN info
    ELSE [code |-> code, name |-> << "unknown" >>, market |-> ""]

Keywords == { << >>, << "6" >>, << "0", "1" >>, << "a" >>, << "b" >>, << "9" >> }
Codes == { << "6", "0", "1" >>, << "0", "0", "1" >>, << "9", "0", "2" >>,
           << "6", "0", "3" >> }

\* search_stocks(keyword)
SearchStocks(keyword) ==
    /\ dirCalls < MaxContacts
    /\ LET r == get_stock_list IN
        /\ cache' = r.cache
        /\ dirCalls' = r.contacts
        /\ served' = served \cup { r.value }
        /\ lastReply' = [op |-> "search", list |-> search_result(r.value, keyword),
                         info |-> NoStock, code |-> << >>, answer |-> NoStock,
                         memo |-> cache_hit(cache),
                         fresh |-> r.value = stock_list_body(upstream)]
    /\ UNCHANGED upstream
    /\ UNCHANGED <<klineVars, anaVars, sigVars>>

\* get_stock_info(code)
GetStockInfo(code) ==
    /\ dirCalls < MaxContacts
    /\ LET r == get_stock_list IN
        /\ cache' = r.cache
        /\ dirCalls' = r.contacts
        /\ served' = served \cup { r.value }
        /\ lastReply' = [op |-> "info", list |-> << >>,
                         info |-> info_result(r.value, code), code |-> code,
                         answer |-> info_route_answer(info_result(r.value, code), code),
                         memo |-> cache_hit(cache),
                         fresh |-> r.value = stock_list_body(upstream)]
    /\ UNCHANGED upstream
    /\ UNCHANGED <<klineVars, anaVars, sigVars>>

\* the providers' listings change, or a provider goes down or comes back
UpstreamChanges(sh, sz) ==
    /\ upstream' = [sh |-> sh, sz |-> sz]
    /\ upstream' # upstream
    /\ UNCHANGED <<cache, dirCalls, served, lastReply>>
    /\ UNCHANGED <<klineVars, anaVars, sigVars>>

(***************************************************************************)
(* Floating-point numbers: NaN, or n/d in lowest terms with d >= 0, where  *)
(* d = 0 is plus or minus infinity.                                        *)
(***************************************************************************)
NaN == [nan |-> TRUE, n |-> 0, d |-> 1]

Abs(a) == IF a < 0 THEN -a ELSE a

RECURSIVE GCD(_, _)
GCD(a, b) == IF b = 0 THEN a ELSE GCD(b, a % b)

\* n/d with g the greatest common divisor of |n| and |d|, d > 0 or d = 0
lowest_terms(n, d, g) == [nan |-> FALSE, n |-> n \div g, d |-> d \div g]

Q(n, d) ==
    IF n = 0 /\ d = 0 THEN NaN
    ELSE IF d < 0 THEN lowest_terms(-n, -d, GCD(Abs(n), Abs(d)))
    ELSE lowest_terms(n, d, GCD(Abs(n), Abs(d)))

Num(i) == [nan |-> FALSE, n |-> i, d |-> 1]

\* IEEE comparisons: false when an operand is NaN
Gt(x, y) == ~x.nan /\ ~y.nan /\ x.n * y.d > y.n * x.d
Lt(x, y) == Gt(y, x)

\* a + b over the least common denominator, g the gcd of the denominators
add_over(x, y, g) ==
    Q(x.n * (y.d \div g) + y.n * (x.d \div g), (x.d \div g) * y.d)

Add(x, y) ==
    IF x.nan \/ y.nan THEN NaN
    ELSE IF x.d = 0 \/ y.d = 0 THEN Q(x.n * y.d + y.n * x.d, 0)
    ELSE add_over(x, y, GCD(x.d, y.d))

Neg(x) == IF x.nan THEN NaN ELSE [nan |-> FALSE, n |-> -x.n, d |-> x.d]

Sub(x, y) == Add(x, Neg(y))

\* a * b, cancelling g1 = gcd(|x.n|, y.d) and g2 = gcd(|y.n|, x.d) first
mul_cancel(x, y, g1, g2) ==
    Q((x.n \div g1) * (y.n \div g2), (x.d \div g2) * (y.d \div g1))

Mul(x, y) ==
    IF x.nan \/ y.nan THEN NaN
    ELSE IF x.n = 0 \/ y.n = 0 THEN Q(0, x.d * y.d)
    ELSE mul_cancel(x, y, GCD(Abs(x.n), y.d), GCD(Abs(y.n), x.d))

\* numpy's a / b: division by zero gives an infinity, 0/0 gives NaN
Div(x, y) ==
    IF x.nan \/ y.nan THEN NaN
    ELSE Mul(x, Q(y.d, y.n))

\* Python's built-in max(a, b) and min(a, b): the first argument unless the
\* second compares greater (smaller)
py_max(a, b) == IF Gt(b, a) THEN b ELSE a
py_min(a, b) == IF Lt(b, a) THEN b ELSE a

RECURSIVE SumRange(_, _, _)
\* xs[lo] + ... + xs[hi], by halves
SumRange(xs, lo, hi) ==
    IF lo > hi THEN Num(0)
    ELSE IF lo = hi THEN xs[lo]
    ELSE Add(SumRange(xs, lo, (lo + hi) \div 2),
             SumRange(xs, (lo + hi) \div 2 + 1, hi))

SumSeq(xs) == SumRange(xs, 1, Len(xs))

\* the last min(len, k) elements of a column
last_k(col, k) == tail(col, k)

column(frame, name) == [i \in 1..Len(frame) |-> frame[i][name]]

any_nan(col) == \E i \in DOMAIN col : col[i].nan

\* Series.rolling(w).mean().iloc[-1]: NaN unless the last w values exist
\* and are all numbers
rolling_mean_last(col, w) ==
    IF Len(col) < w \/ any_nan(last_k(col, w)) THEN NaN
    ELSE Div(SumSeq(last_k(col, w)), Num(w))

\* the smaller (larger) of a value and the running extreme, NaN skipped
min_skipna(x, acc) == IF x.nan THEN acc ELSE IF acc.nan \/ Lt(x, acc) THEN x ELSE acc
max_skipna(x, acc) == IF x.nan THEN acc ELSE IF acc.nan \/ Gt(x, acc) THEN x ELSE acc

RECURSIVE fold_min(_, _)
\* the smallest number of a column, NaN values skipped; `acc` when none
fold_min(col, acc) ==
    IF col = << >> THEN acc ELSE fold_min(Tail(col), min_skipna(Head(col), acc))

RECURSIVE fold_max(_, _)
fold_max(col, acc) ==
    IF col = << >> THEN acc ELSE fold_max(Tail(col), max_skipna(Head(col), acc))

\* Series.min() and Series.max(): skipna, NaN for an all-NaN column
series_min(col) == fold_min(col, NaN)
series_max(col) == fold_max(col, NaN)

(***************************************************************************)
(* Bar series under analysis: a sequence of bars, oldest first, each with  *)
(* close, high and low (a number, or NaN where the upstream value did not  *)
(* parse).                                                                 *)
(***************************************************************************)
Shapes == {"flat", "rising", "falling", "zigzag"}

\* closing price of bar i of n in a series of the given shape; always >= 1
shape_close(shape, step, n, i) ==
    CASE shape = "flat" -> FlatLevel
      [] shape = "rising" -> step * i
      [] shape = "falling" -> step * (n - i) + 1
      [] shape = "zigzag" -> FlatLevel + step * (i % 2)

NoMask == [fields |-> {}, run |-> 0, off |-> 0]

\* whether the mask turns field f of bar i of n into NaN: a run of `run`
\* bars that ends `off` bars before the last one
masked(mask, f, n, i) ==
    /\ f \in mask.fields
    /\ i <= n - mask.off
    /\ i > n - mask.off - mask.run

make_bar(shape, step, mask, n, i) ==
    LET c == shape_close(shape, step, n, i) IN
    [close |-> IF masked(mask, "close", n, i) THEN NaN ELSE Num(c),
     high |-> IF masked(mask, "high", n, i) THEN NaN ELSE Num(c + 1),
     low |-> IF masked(mask, "low", n, i) THEN NaN ELSE Num(c - 1)]

make_series(shape, step, mask, n) ==
    [i \in 1..n |-> make_bar(shape, step, mask, n, i)]

(***************************************************************************)
(* calculate_all. The indicator classes of the `ta` package are the        *)
(* environment: each of their nine outputs is a number or NaN.             *)
(***************************************************************************)
TaFields == {"macd", "macd_signal", "macd_diff", "rsi", "stoch", "stoch_signal",
             "hband", "mavg", "lband"}

\* the NaN outputs of one run of the package: none, any one, or all
TaNanSets == {{}} \cup {{f} : f \in TaFields} \cup {TaFields}

ta_value(f, v) ==
    CASE f = "macd" -> Q(v, 2)
      [] f = "macd_signal" -> Q(1, 2)
      [] f = "macd_diff" -> Q(v - 1, 2)
      [] f = "rsi" -> Num(25 + 25 * v)
      [] f = "stoch" -> Num(10 + 40 * v)
      [] f = "stoch_signal" -> Num(50)
      [] f = "hband" -> Num(FlatLevel + v)
      [] f = "mavg" -> Num(FlatLevel)
      [] f = "lband" -> Num(FlatLevel - v)

TaOutcomes ==
    { [f \in TaFields |-> IF f \in nans THEN NaN ELSE ta_value(f, v)] :
        nans \in TaNanSets, v \in 0..MaxTaVal }

EmptyDict == [k \in {} |-> NaN]

IndicatorKeys == {"current_price", "ma5", "ma10", "ma20", "ma60", "macd", "signal",
                  "hist", "rsi", "kdj_k", "kdj_d", "kdj_j", "boll_upper",
                  "boll_middle", "boll_lower", "support_level", "resistance_level"}

\* `float(x) if not pd.isna(x) else default`
or_default(x, default) == IF x.nan THEN default ELSE x

\* the guard of calculate_all and of predict_all with another threshold
too_short_off_by_one(frame) == empty(frame) \/ Len(frame) < MinBars - 1

\* `df.empty or len(df) < 60`
too_short(frame) == empty(frame) \/ Len(frame) < MinBars

calculate_all(frame, ta) ==
    IF too_short(frame) THEN EmptyDict
    ELSE LET close == column(frame, "close")
             kdj_k == or_default(ta["stoch"], Num(50))
             kdj_d == or_default(ta["stoch_signal"], Num(50)) IN
         [k \in IndicatorKeys |->
            CASE k = "current_price" -> close[Len(close)]
              [] k = "ma5" -> rolling_mean_last(close, 5)
              [] k = "ma10" -> rolling_mean_last(close, 10)
              [] k = "ma20" -> rolling_mean_last(close, 20)
              [] k = "ma60" -> rolling_mean_last(close, 60)
              [] k = "macd" -> or_default(ta["macd"], Num(0))
              [] k = "signal" -> or_default(ta["macd_signal"], Num(0))
              [] k = "hist" -> or_default(ta["macd_diff"], Num(0))
              [] k = "rsi" -> or_default(ta["rsi"], Num(50))
              [] k = "kdj_k" -> kdj_k
              [] k = "kdj_d" -> kdj_d
              [] k = "kdj_j" -> Sub(Mul(Num(3), kdj_k), Mul(Num(2), kdj_d))
              [] k = "boll_upper" -> or_default(ta["hband"], Num(0))
              [] k = "boll_middle" -> or_default(ta["mavg"], Num(0))
              [] k = "boll_lower" -> or_default(ta["lband"], Num(0))
              [] k = "support_level" -> series_min(last_k(column(frame, "low"), 20))
              [] k = "resistance_level" -> series_max(last_k(column(frame, "high"), 20))]

(***************************************************************************)
(* get_signals                                                             *)
(***************************************************************************)
\* dict.get(key, default)
get(dict, key, default) == IF key \in DOMAIN dict THEN dict[key] ELSE default

Signal(name, type, desc) == [name |-> name, type |-> type, desc |-> desc]

\* a MACD classification with a neutral band where the two lines meet
macd_signal_three_way(ind) ==
    IF Gt(get(ind, "macd", Num(0)), get(ind, "signal", Num(0)))
    THEN Signal("MACD", "bullish", "golden cross")
    ELSE IF Lt(get(ind, "macd", Num(0)), get(ind, "signal", Num(0)))
    THEN Signal("MACD", "bearish", "death cross")
    ELSE Signal("MACD", "neutral", "neutral")

\* no else-if: whatever is not a golden cross is a death cross
macd_signal_of(ind) ==
    IF Gt(get(ind, "macd", Num(0)), get(ind, "signal", Num(0)))
    THEN Signal("MACD", "bullish", "golden cross")
    ELSE Signal("MACD", "bearish", "death cross")

rsi_signal_of(ind) ==
    LET rsi == get(ind, "rsi", Num(50)) IN
    IF Gt(rsi, Num(70)) THEN Signal("RSI", "bearish", "overbought")
    ELSE IF Lt(rsi, Num(30)) THEN Signal("RSI", "bullish", "oversold")
    ELSE Signal("RSI", "neutral", "neutral")

kdj_signal_of(ind) ==
    LET kdj_j == get(ind, "kdj_j", Num(50)) IN
    IF Gt(kdj_j, Num(80)) THEN Signal("KDJ", "bearish", "overbought")
    ELSE IF Lt(kdj_j, Num(20)) THEN Signal("KDJ", "bullish", "oversold")
    ELSE Signal("KDJ", "neutral", "neutral")

\* Python's chained comparison a > b > c is (a > b) and (b > c)
ma_signal_of(ind) ==
    LET price == get(ind, "current_price", Num(0))
        ma5 == get(ind, "ma5", Num(0))
        ma20 == get(ind, "ma20", Num(0)) IN
    IF Gt(price, ma5) /\ Gt(ma5, ma20) THEN Signal("MA", "bullish", "bullish stack")
    ELSE IF Lt(price, ma5) /\ Lt(ma5, ma20) THEN Signal("MA", "bearish", "bearish stack")
    ELSE Signal("MA", "neutral", "interleaved")

get_signals(ind) ==
    << macd_signal_of(ind), rsi_signal_of(ind), kdj_signal_of(ind), ma_signal_of(ind) >>

(***************************************************************************)
(* predict_all and its three estimators. An estimate is                    *)
(* [trend, price, confidence]; a call ends by returning one or by raising. *)
(***************************************************************************)
Estimate(trend, price, confidence) ==
    [trend |-> trend, price |-> price, confidence |-> confidence]

EstReturned(e) == [ctl |-> "return", est |-> e]
EstRaised == [ctl |-> "raise", est |-> Estimate("none", NaN, NaN)]

last_close(frame) == frame[Len(frame)].close

\* the value every except block returns, and _xgboost_predict on too few rows
fallback(frame) == Estimate("sideways", last_close(frame), Q(1, 2))

\* a confidence passed on as it is
no_clamp(x) == x

\* min(0.9, max(0.3, x))
clamp_confidence(x) == py_min(Q(9, 10), py_max(Q(3, 10), x))

\* `up` above current * 1.01, `down` below current * 0.99
price_trend(predicted, current) ==
    IF Gt(predicted, Mul(current, Q(101, 100))) THEN "up"
    ELSE IF Lt(predicted, Mul(current, Q(99, 100))) THEN "down"
    ELSE "sideways"

\* close[lo:hi] with Python's negative indices: the elements at 0-based
\* positions max(n + lo, 0) .. n + hi - 1
py_slice(col, lo, hi) ==
    IF Len(col) + hi <= Len(col) + lo \/ Len(col) + hi <= 0 THEN << >>
    ELSE IF Len(col) + lo < 0 THEN SubSeq(col, 1, Len(col) + hi)
    ELSE SubSeq(col, Len(col) + lo + 1, Len(col) + hi)

\* np.diff
np_diff(col) ==
    IF Len(col) <= 1 THEN << >>
    ELSE [i \in 1..(Len(col) - 1) |-> Sub(col[i + 1], col[i])]

\* whether numpy can broadcast two one-dimensional shapes
broadcastable(m, k) == m = k \/ m = 1 \/ k = 1

\* element j of a one-dimensional operand broadcast to a longer shape
bcast(col, j) == IF Len(col) = 1 THEN col[1] ELSE col[j]

\* numpy's a / b on two broadcastable one-dimensional arrays
np_divide(xs, ys) ==
    [j \in 1..(IF Len(xs) >= Len(ys) THEN Len(xs) ELSE Len(ys)) |->
        Div(bcast(xs, j), bcast(ys, j))]

\* Series.ewm(span).mean() with adjust=True, one value further: a number
\* joins the weighted sum with weight 1, a NaN value only ages the weights
ewm_step(x, decay, prev) ==
    IF x.nan
    THEN [num |-> Mul(decay, prev.num), den |-> Mul(decay, prev.den)]
    ELSE [num |-> Add(x, Mul(decay, prev.num)),
          den |-> Add(Num(1), Mul(decay, prev.den))]

RECURSIVE ewm_acc(_, _, _)
\* the weighted sum and the sum of weights after k values
ewm_acc(col, k, decay) ==
    IF k = 0 THEN [num |-> Num(0), den |-> Num(0)]
    ELSE ewm_step(col[k], decay, ewm_acc(col, k - 1, decay))

ewm_ratio(acc) == Div(acc.num, acc.den)

\* .ewm(span=span).mean().iloc[-1]; the decay is 1 - 2 / (span + 1)
ewm_mean_last(col, span) ==
    ewm_ratio(ewm_acc(col, Len(col), Q(span - 1, span + 1)))

\* np.sum(col > 0) and np.sum(col < 0)
count_positive(col) == Cardinality({j \in DOMAIN col : Gt(col[j], Num(0))})
count_negative(col) == Cardinality({j \in DOMAIN col : Lt(col[j], Num(0))})

\* np.sum(recent_returns > 0) / len(recent_returns) if trend == "up",
\* else the share of negative returns
lstm_consistency(trend, recent_returns) ==
    IF trend = "up"
    THEN Div(Num(count_positive(recent_returns)), Num(Len(recent_returns)))
    ELSE Div(Num(count_negative(recent_returns)), Num(Len(recent_returns)))

\* np.diff(close[-10:]) / close[-11:-1] and what follows it
lstm_confidence(trend, predicted_price, numer, denom) ==
    IF ~broadcastable(Len(numer), Len(denom)) THEN EstRaised
    ELSE EstReturned(Estimate(trend, predicted_price,
            clamp_confidence(lstm_consistency(trend, np_divide(numer, denom)))))

\* the trend, once the predicted price is known
lstm_trend(close, current_price, predicted_price) ==
    lstm_confidence(price_trend(predicted_price, current_price), predicted_price,
                    np_diff(py_slice(close, -10, 0)), py_slice(close, -11, -1))

\* current_price * (1 + trend_factor * 0.5)
lstm_price(close, current_price, trend_factor) ==
    lstm_trend(close, current_price,
               Mul(current_price, Add(Num(1), Mul(trend_factor, Q(1, 2)))))

\* (ema_short - ema_long) / ema_long
lstm_trend_factor(close, ema_short, ema_long) ==
    lstm_price(close, close[Len(close)], Div(Sub(ema_short, ema_long), ema_long))

\* the try block of _lstm_predict
lstm_try_body(frame, faults) ==
    IF "lstm" \in faults \/ Len(frame) = 0 THEN EstRaised
    ELSE lstm_trend_factor(column(frame, "close"),
                           ewm_mean_last(column(frame, "close"), 5),
                           ewm_mean_last(column(frame, "close"), 20))

\* what the call comes to when an exception leaves the try block
caught(frame, r) == IF r.ctl = "raise" THEN EstReturned(fallback(frame)) ELSE r

\* an estimator whose except block is missing
lstm_no_except(frame, faults) == lstm_try_body(frame, faults)

\* _lstm_predict: except Exception returns the fallback
_lstm_predict(frame, faults) == caught(frame, lstm_try_body(frame, faults))

\* np.arange(n) as numbers
arange(n) == [i \in 1..n |-> Num(i - 1)]

\* x * y on arrays of one shape
np_multiply(xs, ys) == [i \in 1..Len(xs) |-> Mul(xs[i], ys[i])]

Square(x) == Mul(x, x)

\* np.mean
mean(col) == Div(SumSeq(col), Num(Len(col)))

\* the least-squares slope from the sums; a level line when x does not vary
normal_slope(n, sx, sy, sxy, det) ==
    IF det = Num(0) THEN Num(0) ELSE Div(Sub(Mul(n, sxy), Mul(sx, sy)), det)

normal_line(n, sx, sy, slope) ==
    [slope |-> slope, intercept |-> Div(Sub(sy, Mul(slope, sx)), n)]

normal_equations(n, sx, sy, sxy, sxx) ==
    normal_line(n, sx, sy, normal_slope(n, sx, sy, sxy, Sub(Mul(n, sxx), Mul(sx, sx))))

\* np.polyfit(x, y, 1) on numbers: the least-squares line
\*   slope = (n Sxy - Sx Sy) / (n Sxx - Sx Sx), intercept = (Sy - slope Sx) / n
polyfit1(x, y) ==
    normal_equations(Num(Len(x)), SumSeq(x), SumSeq(y),
                     SumSeq(np_multiply(x, y)), SumSeq(np_multiply(x, x)))

\* how np.polyfit treats a NaN in y depends on the LAPACK build: lstsq
\* raises LinAlgError, or the fit comes back all NaN
PolyfitNanModes == {"raise", "nan"}

\* np.polyfit(x, y, 1) where it returns
np_polyfit(x, y) ==
    IF any_nan(y) THEN [slope |-> NaN, intercept |-> NaN] ELSE polyfit1(x, y)

\* the absolute value of a float
fabs(x) == IF x.nan THEN NaN ELSE [nan |-> FALSE, n |-> Abs(x.n), d |-> x.d]

\* the scalar v broadcast to an array of n elements
np_full(n, v) == [i \in 1..n |-> v]

\* np.sum((close - c) ** 2) on arrays of one shape
sum_sq_diff(close, c) ==
    SumSeq([i \in 1..Len(close) |-> Square(Sub(close[i], c[i]))])

\* 1 - (ss_res / ss_tot) if ss_tot > 0 else 0
prophet_r2(ss_res, ss_tot) ==
    IF Gt(ss_tot, Num(0)) THEN Sub(Num(1), Div(ss_res, ss_tot)) ELSE Num(0)

\* `up` needs a positive slope as well, `down` a negative one
prophet_trend(slope, predicted_price, current_price) ==
    IF Gt(slope, Num(0)) /\ Gt(predicted_price, Mul(current_price, Q(101, 100)))
    THEN "up"
    ELSE IF Lt(slope, Num(0)) /\ Lt(predicted_price, Mul(current_price, Q(99, 100)))
    THEN "down"
    ELSE "sideways"

\* the confidence from R squared of the fitted line y_pred against the
\* mean mu of the window
prophet_confidence(close, y_pred, mu) ==
    clamp_confidence(fabs(prophet_r2(sum_sq_diff(close, y_pred),
                                     sum_sq_diff(close, np_full(Len(close), mu)))))

\* slope * x + intercept
prophet_y_pred(x, slope, intercept) ==
    [i \in 1..Len(x) |-> Add(Mul(slope, x[i]), intercept)]

\* the estimate, once the line and the price it extrapolates to are known
prophet_estimate(close, x, slope, intercept, predicted_price) ==
    EstReturned(Estimate(prophet_trend(slope, predicted_price, close[Len(close)]),
                         predicted_price,
                         prophet_confidence(close, prophet_y_pred(x, slope, intercept),
                                            mean(close))))

\* slope * future_x + intercept with future_x = len(close) + 5
prophet_price(close, x, fit) ==
    prophet_estimate(close, x, fit.slope, fit.intercept,
                     Add(Mul(fit.slope, Num(Len(close) + 5)), fit.intercept))

\* the fit of the window close = df['close'].values[-30:]
prophet_fit(close, nanmode) ==
    IF any_nan(close) /\ nanmode = "raise" THEN EstRaised
    ELSE prophet_price(close, arange(Len(close)),
                       np_polyfit(arange(Len(close)), close))

\* the try block of _prophet_predict
prophet_try_body(frame, faults, nanmode) ==
    IF "prophet" \in faults \/ Len(frame) = 0 THEN EstRaised
    ELSE prophet_fit(py_slice(column(frame, "close"), -30, 0), nanmode)

\* _prophet_predict: except Exception returns the fallback
_prophet_predict(frame, faults, nanmode) ==
    caught(frame, prophet_try_body(frame, faults, nanmode))

\* whether the forward-filled close of row i is a number (pct_change pads
\* NaN values before it divides)
pad_defined(close, i) == \E j \in 1..i : ~close[j].nan

\* whether close.pct_change(k) is a number in row i
pct_change_defined(close, i, k) ==
    i > k /\ pad_defined(close, i) /\ pad_defined(close, i - k)

\* whether close.rolling(w) has a full window of numbers in row i
rolling_defined(close, i, w) ==
    i >= w /\ \A j \in (i - w + 1)..i : ~close[j].nan

\* whether every feature column is a number in row i
features_defined(close, i) ==
    /\ pct_change_defined(close, i, 1)
    /\ pct_change_defined(close, i, 5)
    /\ pct_change_defined(close, i, 10)
    /\ rolling_defined(close, i, 5)
    /\ rolling_defined(close, i, 20)
    /\ rolling_defined(close, i, 10)

\* whether dropna() keeps row i of df_features: every column is a number
\* there (the target column is an int and never NaN)
row_complete(frame, i) ==
    /\ ~frame[i].close.nan /\ ~frame[i].high.nan /\ ~frame[i].low.nan
    /\ features_defined(column(frame, "close"), i)

\* df_features after dropna(): the kept row numbers
kept_rows(frame) == {i \in 1..Len(frame) : row_complete(frame, i)}

\* (close.shift(-5) > close).astype(int) in row i
target(frame, i) ==
    IF i + 5 <= Len(frame) /\ Gt(frame[i + 5].close, frame[i].close) THEN 1 ELSE 0

\* all of the given rows but the last five
but_last_five(kept) == {i \in kept : Cardinality({j \in kept : j > i}) >= 5}

\* the rows of values[:-5]
training_rows(frame) == but_last_five(kept_rows(frame))

\* what GradientBoostingClassifier does: fit raises, or predict_proba gives
\* P(up) = k / ProbDen
NotCalled == [kind |-> "not called", k |-> 0]
FitRaises == [kind |-> "raise", k |-> 0]
FitOutcomes == {FitRaises} \cup [kind : {"proba"}, k : 0..ProbDen]

\* fit(X, y) rejects a target with fewer than two classes
one_class(frame) == Cardinality({target(frame, i) : i \in training_rows(frame)}) < 2

\* whether _xgboost_predict gets as far as asking the classifier
fit_is_asked(frame, faults) ==
    /\ ~too_short(frame) /\ "xgboost" \notin faults
    /\ Cardinality(kept_rows(frame)) >= MinRows
    /\ ~one_class(frame)

\* the trend, confidence and price from prob = [p0, p1]
xgboost_estimate(current_price, p0, p1) ==
    IF Gt(p1, Q(6, 10))
    THEN Estimate("up", Mul(current_price, Add(Num(1), Mul(Q(3, 100), p1))), p1)
    ELSE IF Gt(p0, Q(6, 10))
    THEN Estimate("down", Mul(current_price, Sub(Num(1), Mul(Q(3, 100), p0))), p0)
    ELSE Estimate("sideways", current_price, py_max(p0, p1))

\* the try block of _xgboost_predict
xgboost_try_body(frame, faults, fit) ==
    IF "xgboost" \in faults THEN EstRaised
    ELSE IF Cardinality(kept_rows(frame)) < MinRows THEN EstReturned(fallback(frame))
    ELSE IF one_class(frame) \/ fit.kind # "proba" THEN EstRaised
    ELSE EstReturned(xgboost_estimate(last_close(frame),
                                      Sub(Num(1), Q(fit.k, ProbDen)),
                                      Q(fit.k, ProbDen)))

\* _xgboost_predict: except Exception returns the fallback
_xgboost_predict(frame, faults, fit) ==
    caught(frame, xgboost_try_body(frame, faults, fit))

Estimators == {"lstm", "prophet", "xgboost"}

merged(a, b, c) ==
    [lstm_trend |-> a.trend, lstm_price |-> a.price, lstm_confidence |-> a.confidence,
     prophet_trend |-> b.trend, prophet_price |-> b.price,
     prophet_confidence |-> b.confidence,
     xgboost_trend |-> c.trend, xgboost_price |-> c.price,
     xgboost_confidence |-> c.confidence]

_empty_result ==
    merged(Estimate("sideways", Num(0), Q(1, 2)), Estimate("sideways", Num(0), Q(1, 2)),
           Estimate("sideways", Num(0), Q(1, 2)))

NoRecord == [k \in {} |-> NaN]

\* predict_all: what it returns (or that it raised) and the estimators it
\* ran, where a, b and c are what the calls of _lstm_predict,
\* _prophet_predict and _xgboost_predict on the frame come to (each is
\* looked at only where predict_all makes the call)
predict_all(frame, a, b, c) ==
    IF too_short(frame)
    THEN [raised |-> FALSE, record |-> _empty_result, ran |-> {}]
    ELSE IF a.ctl = "raise"
    THEN [raised |-> TRUE, record |-> NoRecord, ran |-> {"lstm"}]
    ELSE IF b.ctl = "raise"
    THEN [raised |-> TRUE, record |-> NoRecord, ran |-> {"lstm", "prophet"}]
    ELSE IF c.ctl = "raise"
    THEN [raised |-> TRUE, record |-> NoRecord, ran |-> Estimators]
    ELSE [raised |-> FALSE, record |-> merged(a.est, b.est, c.est),
          ran |-> Estimators]

(***************************************************************************)
(* The analysis of one fetched series, as the routes run it.               *)
(***************************************************************************)
NoEnv == [ta |-> "not called", faults |-> {}, nanmode |-> "not called",
          fit |-> NotCalled]

\* whether np.polyfit is handed a NaN
polyfit_sees_nan(frame, faults) ==
    /\ ~too_short(frame) /\ "prophet" \notin faults
    /\ any_nan(py_slice(column(frame, "close"), -30, 0))

\* calculate_all(df); the indicator package answers `ta` when it is reached
CalculateAll ==
    /\ apc = "fetched"
    /\ \E ta \in (IF too_short(df) THEN {"not called"} ELSE TaOutcomes) :
        /\ indicators' = calculate_all(df, ta)
        /\ env' = [NoEnv EXCEPT !.ta = ta]
    /\ apc' = "calculated"
    /\ UNCHANGED <<df, prediction, ran>>
    /\ UNCHANGED <<klineVars, dirVars, sigVars>>

\* predict_all(df); inside the estimators named in `faults` a library call
\* raises, np.polyfit treats NaN as `nanmode` says and the classifier
\* answers `fit`, each when it is reached
PredictAll ==
    /\ apc = "fetched"
    /\ \E faults \in (IF too_short(df) THEN {{}} ELSE SUBSET Estimators) :
       LET a == _lstm_predict(df, faults) IN
       \E nanmode \in (IF polyfit_sees_nan(df, faults) THEN PolyfitNanModes
                       ELSE {"not called"}) :
       LET b == _prophet_predict(df, faults, nanmode) IN
       \E fit \in (IF fit_is_asked(df, faults) THEN FitOutcomes ELSE {NotCalled}) :
       LET r == predict_all(df, a, b, _xgboost_predict(df, faults, fit)) IN
        /\ prediction' = [raised |-> r.raised, record |-> r.record]
        /\ ran' = r.ran
        /\ env' = [NoEnv EXCEPT !.faults = faults, !.nanmode = nanmode, !.fit = fit]
    /\ apc' = "predicted"
    /\ UNCHANGED <<df, indicators>>
    /\ UNCHANGED <<klineVars, dirVars, sigVars>>

\* the lengths of the series analysed: none and one bar, those around the
\* 60-bar threshold, and those around the first length with 50 rows left
\* after the 19-bar warm-up of the 20-bar window
SeriesLengths ==
    {0, 1, MinBars - 1, MinBars}
        \cup ((MinRows + WarmUp - 1)..(MinRows + WarmUp + MaxExtra))

SeriesShapes ==
    {[shape |-> "flat", step |-> 0]}
        \cup [shape : Shapes \ {"flat"}, step : 1..MaxStep]

\* NaN runs of 1 or LongRun bars that end at the last bar or MaskOff bars
\* before it
Masks ==
    {NoMask} \cup [fields : {{"close"}, {"high", "low"}, {"close", "high", "low"}},
                   run : {1, LongRun}, off : {0, MaskOff}]

AnaNext == CalculateAll \/ PredictAll

(***************************************************************************)
(* get_signals on an arbitrary indicator dict.                             *)
(***************************************************************************)
Missing == [nan |-> FALSE, n |-> 0, d |-> 0]

CrossLevels == {Missing, NaN, Num(0), Num(1)}
RsiLevels == {Missing, NaN, Q(299999, 10000), Num(30), Num(70), Q(700001, 10000)}
KdjLevels == {Missing, NaN, Num(19), Num(20), Num(80), Num(81)}
PriceLevels == {Missing, NaN} \cup {Num(i) : i \in 0..MaxLevel}

\* the dict that holds the chosen value under each key that is not missing
dict_of(choice) ==
    [k \in {k \in DOMAIN choice : choice[k] # Missing} |-> choice[k]]

SigInputs ==
    [macd : CrossLevels, signal : CrossLevels, rsi : RsiLevels, kdj_j : KdjLevels,
     current_price : PriceLevels, ma5 : PriceLevels, ma20 : PriceLevels]

\* get_signals(indicators)
GetSignals ==
    /\ spc = "input"
    /\ signals' = get_signals(sigIn)
    /\ spc' = "classified"
    /\ UNCHANGED sigIn
    /\ UNCHANGED <<klineVars, dirVars, anaVars>>

SigNext == GetSignals

DirNext ==
    \/ \E k \in Keywords : SearchStocks(k)
    \/ \E c \in Codes : GetStockInfo(c)
    \/ \E sh \in ProviderStates, sz \in ProviderStates : UpstreamChanges(sh, sz)

KlineNext ==
    \/ \E p \in Periods : GetKline(p)
    \/ \E out \in SinaOutcomes : SinaAnswer(out)
    \/ \E out \in AkOutcomes : AkshareAnswer(out)

(***************************************************************************)
(* Specifications. Each runs one component from the state after            *)
(* construction; the state of the other components stays as constructed.   *)
(***************************************************************************)
NoReply == [op |-> "none", list |-> << >>, info |-> NoStock, code |-> << >>,
            answer |-> NoStock, memo |-> FALSE, fresh |-> TRUE]

KlineInit ==
    /\ kpc = "idle" /\ period = "daily" /\ calls = << >> /\ slept = << >>
    /\ retry = 0 /\ sinaOut = NoOutcome /\ akOut = << >>
    /\ kresult = EmptyFrame /\ kraised = FALSE
    /\ cache = Unset /\ upstream = [sh |-> Down, sz |-> Down] /\ dirCalls = 0
    /\ served = {} /\ lastReply = NoReply
    /\ apc = "idle" /\ df = << >> /\ env = << >> /\ indicators = << >>
    /\ prediction = << >> /\ ran = {}
    /\ spc = "idle" /\ sigIn = << >> /\ signals = << >>

DirInit ==
    /\ kpc = "idle" /\ period = "daily" /\ calls = << >> /\ slept = << >>
    /\ retry = 0 /\ sinaOut = NoOutcome /\ akOut = << >>
    /\ kresult = EmptyFrame /\ kraised = FALSE
    /\ cache = Unset /\ dirCalls = 0 /\ served = {} /\ lastReply = NoReply
    /\ apc = "idle" /\ df = << >> /\ env = << >> /\ indicators = << >>
    /\ prediction = << >> /\ ran = {}
    /\ spc = "idle" /\ sigIn = << >> /\ signals = << >>
    /\ upstream \in [sh : ProviderStates, sz : ProviderStates]

AnaInit ==
    /\ kpc = "idle" /\ period = "daily" /\ calls = << >> /\ slept = << >>
    /\ retry = 0 /\ sinaOut = NoOutcome /\ akOut = << >>
    /\ kresult = EmptyFrame /\ kraised = FALSE
    /\ cache = Unset /\ upstream = [sh |-> Down, sz |-> Down] /\ dirCalls = 0
    /\ served = {} /\ lastReply = NoReply
    /\ apc = "fetched" /\ env = NoEnv /\ indicators = EmptyDict
    /\ prediction = [raised |-> FALSE, record |-> NoRecord] /\ ran = {}
    /\ spc = "idle" /\ sigIn = << >> /\ signals = << >>
    /\ \E n \in SeriesLengths, sh \in SeriesShapes, mask \in Masks :
         df = make_series(sh.shape, sh.step, mask, n)

SigInit ==
    /\ kpc = "idle" /\ period = "daily" /\ calls = << >> /\ slept = << >>
    /\ retry = 0 /\ sinaOut = NoOutcome /\ akOut = << >>
    /\ kresult = EmptyFrame /\ kraised = FALSE
    /\ cache = Unset /\ upstream = [sh |-> Down, sz |-> Down] /\ dirCalls = 0
    /\ served = {} /\ lastReply = NoReply
    /\ apc = "idle" /\ df = << >> /\ env = << >> /\ indicators = << >>
    /\ prediction = << >> /\ ran = {}
    /\ spc = "input" /\ signals = << >>
    /\ \E choice \in SigInputs : sigIn = dict_of(choice)

SpecKline == KlineInit /\ [][KlineNext]_vars

SpecDir == DirInit /\ [][DirNext]_vars

SpecAna == AnaInit /\ [][AnaNext]_vars

SpecSig == SigInit /\ [][SigNext]_vars

(***************************************************************************)
(* Properties of get_kline.                                                *)
(***************************************************************************)
\* the upstream answered with a non-empty, well-formed series
YieldsRows(out) == out.kind = "rows" /\ out.n > 0

NoAttemptYields == \A i \in DOMAIN akOut : ~YieldsRows(akOut[i])

Min(a, b) == IF a <= b THEN a ELSE b

\* C1: get_kline never fails the caller. Whatever the two upstreams answer
\* (raise, nothing, malformed, rows), no exception leaves get_kline, the
\* call ends after at most 1 + 3 upstream exchanges, and the series it
\* returns is empty exactly when neither adapter yielded a non-empty one.
C1_NeverFails ==
    /\ ~kraised
    /\ Len(calls) <= 1 + MaxAttempts
    /\ kpc = "done" =>
         (empty(kresult) <=> (~YieldsRows(sinaOut) /\ NoAttemptYields))

\* both adapters failed in every way they can: the call ended with an
\* empty series
C1_Witness ==
    /\ kpc = "done" /\ empty(kresult) /\ ~kraised
    /\ sinaOut.kind = "badjson"
    /\ Len(akOut) = MaxAttempts
    /\ akOut[1].kind = "raise" /\ akOut[2].kind = "empty" /\ akOut[3].kind = "nodate"

\* C2: the adapters are tried in fixed order and the first non-empty series
\* is the result. The snapshot source is contacted first and only once; the
\* historical source is contacted only after the snapshot source yielded
\* nothing; a non-empty snapshot series is the result and the historical
\* upstream is then never contacted; otherwise a historical series of n
\* rows yields its last min(n, 250) rows in their order.
C2_FixedOrder ==
    /\ \A i \in DOMAIN calls : (calls[i].src = "sina") <=> (i = 1)
    /\ Len(calls) > 1 => (sinaOut.kind # "pending" /\ ~YieldsRows(sinaOut))
    /\ (kpc = "done" /\ YieldsRows(sinaOut)) =>
         (kresult = Rows(sinaOut.n) /\ Len(calls) = 1 /\ akOut = << >>)
    /\ (kpc = "done" /\ ~YieldsRows(sinaOut) /\ akOut # << >>
          /\ YieldsRows(akOut[Len(akOut)])) =>
         LET n == akOut[Len(akOut)].n
             m == Min(n, TailWindow) IN
         /\ Len(kresult) = m
         /\ \A i \in 1..m : kresult[i] = n - m + i

\* the snapshot source yielded nothing and the historical source answered
\* 300 rows: the result is rows 51..300
C2_Witness ==
    /\ kpc = "done" /\ ~YieldsRows(sinaOut)
    /\ akOut # << >> /\ akOut[Len(akOut)] = [kind |-> "rows", n |-> BigRows]
    /\ Len(kresult) = TailWindow
    /\ kresult[1] = BigRows - TailWindow + 1 /\ kresult[TailWindow] = BigRows

\* C3: every series get_kline returns, from whichever adapter and however
\* many rows the upstream delivered, has at most 250 bars, and they are the
\* most recent bars of the upstream response, the most recent last.
C3_AtMost250 ==
    (kpc = "done" /\ ~empty(kresult)) =>
        LET n == IF YieldsRows(sinaOut) THEN sinaOut.n ELSE akOut[Len(akOut)].n
            m == Min(n, TailWindow) IN
        /\ Len(kresult) <= TailWindow
        /\ Len(kresult) = m
        /\ \A i \in 1..m : kresult[i] = n - m + i

\* C11: one call of _get_kline_akshare makes at most 3 upstream attempts,
\* numbered 0, 1, 2, and sleeps 0.3 * k seconds before attempt k (0, 3 and 6
\* tenths); an attempt that raises or answers nothing is swallowed and
\* followed by the next one; the first attempt that answers rows ends the
\* loop with the last min(n, 250) of them and no attempt follows it; after
\* 3 attempts without rows the adapter returns an empty series.
C11_RetryLoop ==
    /\ Len(slept) <= 3 /\ Len(akOut) <= Len(slept)
    /\ \A i \in DOMAIN slept : slept[i] = 3 * (i - 1)
    /\ \A i \in DOMAIN calls : i > 1 => calls[i].src = "akshare"
    /\ Len(calls) = (IF kpc = "idle" THEN 0 ELSE 1) + Len(slept)
    /\ kpc = "akshare" => (retry = Len(slept) - 1 /\ Len(akOut) = retry)
    /\ ~kraised
    /\ \A i \in DOMAIN akOut :
         IF YieldsRows(akOut[i])
         THEN /\ i = Len(akOut) /\ Len(slept) = i /\ kpc = "done"
              /\ Len(kresult) = Min(akOut[i].n, 250)
              /\ \A j \in DOMAIN kresult :
                   kresult[j] = akOut[i].n - Len(kresult) + j
         ELSE IF i < 3
         THEN Len(slept) > i
         ELSE kpc = "done" /\ empty(kresult)

\* two swallowed attempts, one raising and one empty, then 300 rows on
\* attempt 2 after sleeps of 0, 0.3 and 0.6 seconds
C11_Witness ==
    /\ kpc = "done" /\ slept = <<0, 3, 6>> /\ Len(akOut) = 3
    /\ akOut[1].kind = "raise" /\ akOut[2].kind = "empty"
    /\ YieldsRows(akOut[3]) /\ akOut[3].n > 250
    /\ Len(kresult) = 250

(***************************************************************************)
(* Properties of calculate_all, get_signals and predict_all.               *)
(***************************************************************************)
\* x is a number (not NaN, not an infinity) with lo <= x <= hi
Within(x, lo, hi) == ~x.nan /\ x.d > 0 /\ ~Lt(x, lo) /\ ~Gt(x, hi)

Prefixes == {"lstm", "prophet", "xgboost"}

\* the three fields an estimator contributes to the merged record
Fields(rec, e) ==
    CASE e = "lstm" -> Estimate(rec.lstm_trend, rec.lstm_price, rec.lstm_confidence)
      [] e = "prophet" ->
           Estimate(rec.prophet_trend, rec.prophet_price, rec.prophet_confidence)
      [] e = "xgboost" ->
           Estimate(rec.xgboost_trend, rec.xgboost_price, rec.xgboost_confidence)

NineKeys == {"lstm_trend", "lstm_price", "lstm_confidence",
             "prophet_trend", "prophet_price", "prophet_confidence",
             "xgboost_trend", "xgboost_price", "xgboost_confidence"}

\* predict_all has returned a record for the series
Predicted == apc = "predicted" /\ ~prediction.raised

\* C4: for every series of fewer than 60 bars, the empty one included,
\* calculate_all returns a dict with no keys, and predict_all returns the
\* fixed record (sideways, 0, 0.5 under each of the three prefixes) without
\* running any estimator.
C4_ShortSeries ==
    Len(df) < 60 =>
        /\ apc = "calculated" => DOMAIN indicators = {}
        /\ apc = "predicted" =>
             /\ ~prediction.raised
             /\ DOMAIN prediction.record = NineKeys
             /\ \A e \in Prefixes :
                  Fields(prediction.record, e) =
                      [trend |-> "sideways", price |-> Num(0), confidence |-> Q(1, 2)]
             /\ ran = {}

\* predict_all has answered a series of 59 bars
C4_Witness ==
    /\ Predicted /\ Len(df) = 59 /\ ran = {}
    /\ prediction.record.prophet_price = Num(0)

\* C5: for every series of at least 60 bars, NaN price fields included,
\* each of the 17 values calculate_all returns is a defined real number.
C5_AllDefined ==
    (apc = "calculated" /\ Len(df) >= 60) =>
        /\ DOMAIN indicators = IndicatorKeys
        /\ \A k \in IndicatorKeys : ~indicators[k].nan

\* C6: for any indicator dict (complete, partly filled, empty, all zero,
\* holding NaN), get_signals returns exactly four signals named MACD, RSI,
\* KDJ and moving-average alignment in that order, each of type bullish,
\* bearish or neutral, and the MACD one is never neutral.
C6_FourSignals ==
    spc = "classified" =>
        /\ Len(signals) = 4
        /\ <<signals[1].name, signals[2].name, signals[3].name, signals[4].name>>
             = <<"MACD", "RSI", "KDJ", "MA">>
        /\ \A i \in 1..4 : signals[i].type \in {"bullish", "bearish", "neutral"}
        /\ signals[1].type # "neutral"

\* the empty dict was classified, and so was one whose MACD lines are NaN
C6_Witness ==
    /\ spc = "classified"
    /\ \/ sigIn = EmptyDict
       \/ /\ DOMAIN sigIn = {"macd", "signal"}
          /\ sigIn["macd"].nan /\ sigIn["signal"].nan
    /\ signals[1].type = "bearish"

\* C7 as stated: in every record predict_all returns, each of the three
\* confidence fields lies in [0.3, 0.9].
C7_AllClamped ==
    Predicted =>
        \A e \in Prefixes :
            Within(Fields(prediction.record, e).confidence, Q(3, 10), Q(9, 10))

\* C7 as the code has it: lstm_confidence and prophet_confidence lie in
\* [0.3, 0.9]; xgboost_confidence, which is a class probability or the
\* fallback 0.5, lies in [0.5, 1].
C7_ClampedAB ==
    Predicted =>
        /\ Within(prediction.record.lstm_confidence, Q(3, 10), Q(9, 10))
        /\ Within(prediction.record.prophet_confidence, Q(3, 10), Q(9, 10))
        /\ Within(prediction.record.xgboost_confidence, Q(1, 2), Num(1))

\* the classifier was sure of its class, and the fitted line explained
\* little of the window: a confidence above 0.9 next to one held at 0.3
C7_Witness ==
    /\ Predicted /\ ran = Prefixes
    /\ env.fit.kind = "proba"
    /\ Gt(prediction.record.xgboost_confidence, Q(9, 10))
    /\ prediction.record.prophet_confidence = Q(3, 10)

\* C8: for a series of at least 60 bars with positive closing prices, each
\* of the three predicted prices in the record is a real number >= 0.
C8_PricesNonNegative ==
    (Predicted /\ Len(df) >= 60 /\ \A i \in DOMAIN df : Gt(df[i].close, Num(0))) =>
        \A e \in Prefixes :
            /\ ~Fields(prediction.record, e).price.nan
            /\ ~Lt(Fields(prediction.record, e).price, Num(0))

\* the estimators that failed in the call: those in which a library call
\* was made to raise, Estimator B when np.polyfit raised, Estimator C when
\* the classifier raised
Failed ==
    env.faults
        \cup (IF env.nanmode = "raise" THEN {"prophet"} ELSE {})
        \cup (IF env.fit.kind = "raise" THEN {"xgboost"} ELSE {})

\* what estimator e returns on the series when nothing is made to fail
Unfailed(e) ==
    CASE e = "lstm" -> _lstm_predict(df, {}).est
      [] e = "prophet" -> _prophet_predict(df, {}, env.nanmode).est
      [] e = "xgboost" -> _xgboost_predict(df, {}, env.fit).est

\* C9: on a series of at least 60 bars, whichever estimators fail,
\* predict_all returns a record with all nine keys; each failed estimator
\* contributes sideways, the last close and 0.5; each other estimator
\* contributes what it does when none fails; nothing is raised.
C9_IndependentFaults ==
    (apc = "predicted" /\ Len(df) >= 60) =>
        /\ ~prediction.raised
        /\ ran = Prefixes
        /\ DOMAIN prediction.record = NineKeys
        /\ \A e \in Failed :
             Fields(prediction.record, e) =
                 [trend |-> "sideways", price |-> df[Len(df)].close,
                  confidence |-> Q(1, 2)]
        /\ \A e \in Prefixes \ Failed :
             Fields(prediction.record, e) = Unfailed(e)

\* Estimators A and C failed and Estimator B answered as it does alone
C9_Witness ==
    /\ Predicted /\ Len(df) >= 60
    /\ env.faults = {"lstm", "xgboost"}
    /\ prediction.record.xgboost_confidence = Q(1, 2)
    /\ prediction.record.prophet_trend = "down"
    /\ prediction.record.prophet_confidence = Q(9, 10)

\* the valid labeled rows of the series: bars whose five features are all
\* defined and whose close five bars later exists
LabeledRows ==
    {i \in 1..Len(df) : features_defined(column(df, "close"), i) /\ i + 5 <= Len(df)}

\* C12: _xgboost_predict fits the classifier only when at least 50 valid
\* labeled rows exist; for every series with fewer it returns sideways, the
\* last close and 0.5 without fitting. Warm-up rows and the rows of the
\* 5-bar lookahead do not count toward the 50.
C12_FiftyLabeledRows ==
    (Predicted /\ Len(df) >= 60 /\ Cardinality(LabeledRows) < 50) =>
        /\ env.fit.kind = "not called"
        /\ Fields(prediction.record, "xgboost") =
               [trend |-> "sideways", price |-> df[Len(df)].close,
                confidence |-> Q(1, 2)]

(***************************************************************************)
(* Properties of the stock directory.                                      *)
(***************************************************************************)
\* C10: over any sequence of search_stocks and get_stock_info calls in one
\* process, at most one get_stock_list call contacts the directory
\* providers; every call observes the same directory contents, those of
\* the memo, and the memo, once set, never changes.
C10_LoadedOnce ==
    /\ [](dirCalls <= 1)
    /\ [](served \subseteq {cache.value})
    /\ [](lastReply.memo => cache.set)
    /\ [][cache.set => cache' = cache]_vars

\* a call was served from the memo while the providers would have answered
\* something else
C10_Witness ==
    /\ dirCalls = 1 /\ cache.set /\ cache.value # << >>
    /\ lastReply.memo /\ ~lastReply.fresh
    /\ lastReply.op = "info" /\ lastReply.info # NoStock

\* the first load of the directory has failed and its empty list is the memo
EmptyMemo == cache.set /\ cache.value = << >>

\* C13: a failed first load of the directory is memoized like a successful
\* one. When the first get_stock_list call meets a provider that is down,
\* the empty list it returns becomes the memo; from then on the providers
\* are not contacted again, search_stocks returns an empty list and
\* get_stock_info returns None (the route answering with the placeholder)
\* for every code, whatever the providers would answer by then.
C13_FailureMemoized ==
    /\ [][(~cache.set /\ cache'.set /\ (upstream.sh = Down \/ upstream.sz = Down))
            => cache'.value = << >>]_vars
    /\ [][EmptyMemo => (cache' = cache /\ dirCalls' = dirCalls)]_vars
    /\ [](EmptyMemo =>
            /\ dirCalls = 1 /\ served = {<< >>}
            /\ lastReply.op = "search" => lastReply.list = << >>
            /\ lastReply.op = "info" =>
                 /\ lastReply.info = NoStock
                 /\ lastReply.answer = [code |-> lastReply.code,
                                        name |-> << "unknown" >>, market |-> ""])

\* the first load failed; both providers are back and list the code asked
\* for, and the call is still answered with the placeholder from the memo
C13_Witness ==
    /\ EmptyMemo /\ dirCalls = 1
    /\ upstream.sh # Down /\ upstream.sz # Down
    /\ lastReply.op = "info" /\ lastReply.memo /\ ~lastReply.fresh
    /\ info_result(stock_list_body(upstream), lastReply.code) # NoStock
    /\ lastReply.answer.name = << "unknown" >>

====
